---------------------------- MODULE Spec2Model ----------------------------
(***************************************************************************)
(* A model of roisto's poller (src/roisto/poller.py): the watermark-driven *)
(* polling loop, the retry-until-converged matching against the three Jore *)
(* mappers, the two LRU-backed inclusion filters and the per-stop          *)
(* serializers feeding the outbound queue.                                 *)
(*                                                                         *)
(* Time.  A datetime is an integer number of ticks; a millisecond holds    *)
(* TicksPerMs ticks, so that a datetime can carry a sub-millisecond part   *)
(* (Python's microseconds) which the millisecond formats cut off.  A       *)
(* timedelta is a difference of datetimes, in ticks.                       *)
(*                                                                         *)
(* Optional values.  Python's None is the empty sequence and a present     *)
(* value v is <<v>>.                                                       *)
(***************************************************************************)
EXTENDS Integers, Sequences, FiniteSets, TLC

VARIABLES
    \* Poller._keep_polling / Poller._poll
    modified_utc_dt,     \* the watermark held by _keep_polling
    poll_pc,             \* position of the loop and of the _poll in flight
    poll_fut,            \* result of the finished _poll (None while running)
    polls_in_flight,     \* _poll coroutines started and not yet finished
    rows,                \* raw batch of the cycle
    matches,             \* _get_all_matches: one optional match per row
    matched,             \* enriched batch handed to the processors
    message_timestamp,   \* batch timestamp of the cycle
    elapsed,             \* seconds since the cycle began (capped)
    poll_end,            \* value of elapsed when _poll returned
    run_log,             \* what Poller.run has logged at error level
    prev_dropped,        \* rows the matching of the previous cycle left out
    \* Poller.__init__
    event_cache_size,    \* config['event_cache_size'], the same all along
    \* the two processors (filter -> serialize -> queue.put)
    proc_pc,             \* per pipeline: "idle", "ready", "putting", "done", "failed"
    serialized,          \* per pipeline: messages not yet put on the queue
    filtered,            \* per pipeline: the matches the filter kept in this cycle
    enqueued,            \* per pipeline: messages put on the queue in this cycle
    event_cache,         \* LRUCache of the event filter
    prediction_cache,    \* LRUCache of the prediction filter
    queue,               \* the bounded outbound queue
    \* collaborators
    is_mqtt_connected,   \* the connectivity event
    departure_table,     \* ptROI Departure rows, by DepartureId
    db_now,              \* clock that stamps LastModifiedUTCDateTime
    stop_mapper,         \* snapshots held by the three mappers (sets of keys)
    journey_mapper,
    utc_offset_mapper,
    published,           \* reference data the mappers refresh from
    writes,              \* rows written to the table so far
    \* a filter applied to one record at a time (FilterSpec)
    fed,                 \* the match last given to a filter (None before)
    fed_to,              \* "event" / "prediction" / "none"
    outcomes,            \* what each call did: "kept", "dropped" or "raised"
    fed_ids,             \* the departure of the record given to each call
    emitted,             \* messages serialized from that call
    last_kept            \* per departure: the last record the filter kept

pollVars == <<modified_utc_dt, poll_pc, poll_fut, polls_in_flight, rows,
              matches, matched, message_timestamp, elapsed, poll_end, run_log>>
procVars == <<proc_pc, serialized, filtered, enqueued, queue>>
cacheVars == <<event_cache, prediction_cache>>
envVars == <<is_mqtt_connected, departure_table, db_now, published, writes>>
mapperVars == <<stop_mapper, journey_mapper, utc_offset_mapper>>
feedVars == <<fed, fed_to, outcomes, fed_ids, emitted, last_kept>>
historyVars == <<prev_dropped>>
configVars == <<event_cache_size>>
vars == <<pollVars, procVars, cacheVars, envVars, mapperVars, feedVars,
         historyVars, configVars>>

---------------------------------------------------------------------------
(* Values shared by everything below. *)

None == <<>>
Some(v) == <<v>>

Abs(x) == IF x < 0 THEN -x ELSE x
Max(a, b) == IF a >= b THEN a ELSE b
SetMax(S) == CHOOSE m \in S : \A x \in S : x <= m

\* Resolution of the model's clock: ticks in one millisecond.
TicksPerMs == 2
TicksPerSecond == 1000 * TicksPerMs

\* datetime.timedelta(seconds = s) and datetime.timedelta(minutes = m)
timedelta_seconds(s) == s * TicksPerSecond
timedelta_minutes(m) == m * 60 * TicksPerSecond

---------------------------------------------------------------------------
(* Configuration read by Poller.__init__. *)

poll_interval_in_seconds == 1
pre_journey_prediction_threshold_in_seconds == 60
prediction_change_threshold_in_seconds == 30
prediction_cache_size == 2
\* config['event_cache_size'] is the variable event_cache_size: 1 for the
\* Poller, either of these for a filter on its own.
EventCacheSizes == {1, 2}
prediction_mqtt_topic_mid == "predictions/"
event_mqtt_topic_mid == "events/"

MINUTES_IN_HOUR == 60

\* DEPARTURE_STATES: the codes that have a name, and the name of each.
DEPARTURE_STATE_CODES == {0, 1, 2, 3, 4, 6, 7, 8, 9, 10, 11, 12, 13}
DEPARTURE_STATES(code) ==
    CASE code = 0 -> "NOTEXPECTED"
      [] code = 1 -> "NOTCALLED"
      [] code = 2 -> "EXPECTED"
      [] code = 3 -> "CANCELLED"
      [] code = 4 -> "INHIBITED"
      [] code = 6 -> "ATSTOP"
      [] code = 7 -> "BOARDING"
      [] code = 8 -> "BOARDINGCLOSED"
      [] code = 9 -> "DEPARTED"
      [] code = 10 -> "PASSED"
      [] code = 11 -> "MISSED"
      [] code = 12 -> "REPLACED"
      [] code = 13 -> "ASSUMEDDEPARTED"

---------------------------------------------------------------------------
(* cachetools.LRUCache: a sequence of <<key, value>> pairs, the least      *)
(* recently used first.  Reading a key that is present makes it the most   *)
(* recently used; writing a key makes it the most recently used and, when  *)
(* the key is new and the cache is full, first drops the least recently    *)
(* used pair.                                                              *)

CacheKeys(cache) == {cache[i][1] : i \in DOMAIN cache}
CacheIndex(cache, key) == CHOOSE i \in DOMAIN cache : cache[i][1] = key
CacheLookup(cache, key) ==
    IF key \in CacheKeys(cache)
    THEN Some(cache[CacheIndex(cache, key)][2])
    ELSE None
CacheWithout(cache, key) == SelectSeq(cache, LAMBDA e : e[1] # key)

\* cache.get(key, None): the value (or None) and the cache after the read
LRUCache_get(cache, key) ==
    IF key \in CacheKeys(cache)
    THEN [value |-> CacheLookup(cache, key),
          cache |-> Append(CacheWithout(cache, key),
                           cache[CacheIndex(cache, key)])]
    ELSE [value |-> None, cache |-> cache]

\* Mutant: a key the cache holds keeps its first value.
LRUCache_setitem_keep_first(maxsize, cache, key, value) ==
    IF key \in CacheKeys(cache)
    THEN cache
    ELSE Append(IF Len(cache) >= maxsize
                THEN SubSeq(cache, Len(cache) - maxsize + 2, Len(cache))
                ELSE cache,
                <<key, value>>)

\* cache[key] = value
LRUCache_setitem(maxsize, cache, key, value) ==
    LET others == CacheWithout(cache, key)
        room == IF key \notin CacheKeys(cache) /\ Len(others) >= maxsize
                THEN SubSeq(others, Len(others) - maxsize + 2, Len(others))
                ELSE others
    IN  Append(room, <<key, value>>)

---------------------------------------------------------------------------
(* Filtering. *)

\* Mutant: a line is a train only when its id is exactly "300".
_is_train_exact(jore_line_id) == jore_line_id = "300"

_is_train(jore_line_id) ==
    Len(jore_line_id) >= 3 /\ SubSeq(jore_line_id, 1, 3) = "300"

\* Mutant: a first stop exactly the threshold ahead counts as given early.
check_event_for_inclusion_early_inclusive(current, cached) ==
    LET is_given_early ==
            current.StartUTCDateTime - current.LastModifiedUTCDateTime
                >= timedelta_seconds(
                       pre_journey_prediction_threshold_in_seconds)
        is_first_stop == current.JourneyPatternSequenceNumber = 1
        is_train == _is_train(current.JoreLineId)
        state == current.State
    IN  [raised |-> FALSE,
         is_kept |->
            IF ~(is_first_stop /\ is_given_early) /\ ~is_train
            THEN IF cached = None THEN TRUE ELSE state # cached[1].State
            ELSE FALSE]

\* Mutant: the state is never compared with the cached one.
check_event_for_inclusion_no_debounce(current, cached) ==
    [raised |-> FALSE,
     is_kept |->
        ~(current.JourneyPatternSequenceNumber = 1
            /\ current.StartUTCDateTime - current.LastModifiedUTCDateTime
                 > timedelta_seconds(
                       pre_journey_prediction_threshold_in_seconds))
        /\ ~_is_train(current.JoreLineId)]

\* check_event_for_inclusion(current, cached), cached optional
check_event_for_inclusion(current, cached) ==
    LET is_given_early ==
            current.StartUTCDateTime - current.LastModifiedUTCDateTime
                > timedelta_seconds(pre_journey_prediction_threshold_in_seconds)
        is_first_stop == current.JourneyPatternSequenceNumber = 1
        is_train == _is_train(current.JoreLineId)
        state == current.State
    IN  [raised |-> FALSE,
         is_kept |->
            IF ~(is_first_stop /\ is_given_early) /\ ~is_train
            THEN IF cached = None THEN TRUE ELSE state # cached[1].State
            ELSE FALSE]

_extract_departure_id_and_event(m) ==
    [key |-> m.source.DepartureId,
     value |->
        [State |-> m.source.State,
         JoreLineId |-> m.journey.JoreLineId,
         StartUTCDateTime |->
            m.journey.LocalizedStartTime
                - timedelta_minutes(m.utc_offset.UTCOffsetMinutes),
         LastModifiedUTCDateTime |-> m.source.LastModifiedUTCDateTime,
         TimetabledEarliestDateTime |-> m.source.TimetabledEarliestDateTime,
         LocalizedStartTime |-> m.journey.LocalizedStartTime,
         JourneyPatternSequenceNumber |-> m.source.JourneyPatternSequenceNumber]]

\* Mutant: any difference from the cached time, none included, is a change.
check_prediction_for_inclusion_zero_threshold(current, cached) ==
    LET is_given_early ==
            current.StartUTCDateTime - current.LastModifiedUTCDateTime
                > timedelta_seconds(pre_journey_prediction_threshold_in_seconds)
        is_predicted_early ==
            current.TargetDateTime < current.TimetabledEarliestDateTime
        is_train == _is_train(current.JoreLineId)
    IN  IF current.State \notin DEPARTURE_STATE_CODES
        THEN [raised |-> TRUE, is_kept |-> FALSE]
        ELSE LET is_cancelled == DEPARTURE_STATES(current.State) = "CANCELLED"
             IN  [raised |-> FALSE,
                  is_kept |->
                     IF ~is_train /\ ~(is_given_early /\ is_predicted_early)
                            /\ ~is_cancelled
                     THEN IF cached = None
                          THEN TRUE
                          ELSE Abs(current.TargetDateTime
                                       - cached[1].TargetDateTime)
                                 >= timedelta_seconds(0)
                     ELSE FALSE]

\* Mutant: given early or predicted early is enough to reject.
check_prediction_for_inclusion_either_early(current, cached) ==
    LET is_given_early ==
            current.StartUTCDateTime - current.LastModifiedUTCDateTime
                > timedelta_seconds(pre_journey_prediction_threshold_in_seconds)
        is_predicted_early ==
            current.TargetDateTime < current.TimetabledEarliestDateTime
        is_train == _is_train(current.JoreLineId)
    IN  IF current.State \notin DEPARTURE_STATE_CODES
        THEN [raised |-> TRUE, is_kept |-> FALSE]
        ELSE LET is_cancelled == DEPARTURE_STATES(current.State) = "CANCELLED"
             IN  [raised |-> FALSE,
                  is_kept |->
                     IF ~is_train /\ ~(is_given_early \/ is_predicted_early)
                            /\ ~is_cancelled
                     THEN IF cached = None
                          THEN TRUE
                          ELSE Abs(current.TargetDateTime
                                       - cached[1].TargetDateTime)
                                 >= timedelta_seconds(
                                        prediction_change_threshold_in_seconds)
                     ELSE FALSE]

\* check_prediction_for_inclusion(current, cached); DEPARTURE_STATES[...] raises
\* KeyError for a code without a name, before anything is decided.
check_prediction_for_inclusion(current, cached) ==
    LET is_given_early ==
            current.StartUTCDateTime - current.LastModifiedUTCDateTime
                > timedelta_seconds(pre_journey_prediction_threshold_in_seconds)
        is_predicted_early ==
            current.TargetDateTime < current.TimetabledEarliestDateTime
        is_train == _is_train(current.JoreLineId)
    IN  IF current.State \notin DEPARTURE_STATE_CODES
        THEN [raised |-> TRUE, is_kept |-> FALSE]
        ELSE LET is_cancelled == DEPARTURE_STATES(current.State) = "CANCELLED"
             IN  [raised |-> FALSE,
                  is_kept |->
                     IF ~is_train /\ ~(is_given_early /\ is_predicted_early)
                            /\ ~is_cancelled
                     THEN IF cached = None
                          THEN TRUE
                          ELSE Abs(current.TargetDateTime
                                       - cached[1].TargetDateTime)
                                 >= timedelta_seconds(
                                        prediction_change_threshold_in_seconds)
                     ELSE FALSE]

\* Mutant: the observation does not replace the prediction.
_extract_departure_id_and_prediction_raw(m) ==
    [key |-> m.source.DepartureId,
     value |->
        [TimetabledEarliestDateTime |-> m.source.TimetabledEarliestDateTime,
         TargetDateTime |-> m.source.TargetDateTime,
         LastModifiedUTCDateTime |-> m.source.LastModifiedUTCDateTime,
         State |-> m.source.State,
         StartUTCDateTime |->
            m.journey.LocalizedStartTime
                - timedelta_minutes(m.utc_offset.UTCOffsetMinutes),
         JoreLineId |-> m.journey.JoreLineId]]

_extract_departure_id_and_prediction(m) ==
    [key |-> m.source.DepartureId,
     value |->
        [TimetabledEarliestDateTime |-> m.source.TimetabledEarliestDateTime,
         TargetDateTime |->
            IF m.source.ObservedDateTime # None
            THEN m.source.ObservedDateTime[1]
            ELSE m.source.TargetDateTime,
         LastModifiedUTCDateTime |-> m.source.LastModifiedUTCDateTime,
         State |-> m.source.State,
         StartUTCDateTime |->
            m.journey.LocalizedStartTime
                - timedelta_minutes(m.utc_offset.UTCOffsetMinutes),
         JoreLineId |-> m.journey.JoreLineId]]

\* The two instances _keep_polling builds with _create_filter, by pipeline.
Pipelines == {"event", "prediction"}
cache_size(kind) ==
    IF kind = "event" THEN event_cache_size ELSE prediction_cache_size

\* Mutant: every record is cached under the same key.
extract_cache_key_value_one_key(kind, m) ==
    [key |-> 1,
     value |-> IF kind = "event"
               THEN _extract_departure_id_and_event(m).value
               ELSE _extract_departure_id_and_prediction(m).value]

extract_cache_key_value(kind, m) ==
    IF kind = "event"
    THEN _extract_departure_id_and_event(m)
    ELSE _extract_departure_id_and_prediction(m)
is_included(kind, current, cached) ==
    IF kind = "event"
    THEN check_event_for_inclusion(current, cached)
    ELSE check_prediction_for_inclusion(current, cached)

\* Mutant: every record seen is cached, kept or not.
is_included_and_cached_every_record(kind, cache, m) ==
    LET kv == extract_cache_key_value(kind, m)
        got == LRUCache_get(cache, kv.key)
        res == is_included(kind, kv.value, got.value)
    IN  [raised |-> res.raised,
         is_kept |-> res.is_kept,
         cache |-> IF res.raised
                   THEN got.cache
                   ELSE LRUCache_setitem(cache_size(kind), got.cache,
                                         kv.key, kv.value)]

\* is_included_and_cached(matched) on a given cache: whether the call raised,
\* its answer, and the cache it leaves.
is_included_and_cached(kind, cache, m) ==
    LET kv == extract_cache_key_value(kind, m)
        got == LRUCache_get(cache, kv.key)
        res == is_included(kind, kv.value, got.value)
    IN  [raised |-> res.raised,
         is_kept |-> res.is_kept,
         cache |-> IF res.is_kept
                   THEN LRUCache_setitem(cache_size(kind), got.cache,
                                         kv.key, kv.value)
                   ELSE got.cache]

\* filter_(matches): list(filter(is_included_and_cached, matches)); a raise
\* ends the call with the cache as the earlier records left it.
filter_(kind, cache, ms) ==
    LET run[i \in 0..Len(ms)] ==
            IF i = 0
            THEN [raised |-> FALSE, kept |-> <<>>, cache |-> cache]
            ELSE LET before == run[i - 1]
                     r == is_included_and_cached(kind, before.cache, ms[i])
                 IN  IF before.raised
                     THEN before
                     ELSE [raised |-> r.raised,
                           kept |-> IF r.is_kept
                                    THEN Append(before.kept, ms[i])
                                    ELSE before.kept,
                           cache |-> r.cache]
    IN  run[Len(ms)]

---------------------------------------------------------------------------
(* Serializing. *)

Digits == <<"0", "1", "2", "3", "4", "5", "6", "7", "8", "9">>
\* '{:02d}'.format(n), for n below 100
TwoDigits(n) == Digits[(n \div 10) + 1] \o Digits[(n % 10) + 1]

_minutes_to_hours_string(minutes) ==
    LET sign == IF minutes < 0 THEN "-" ELSE "+"
        hours == Abs(minutes) \div MINUTES_IN_HOUR
        minutes_left == Abs(minutes) % MINUTES_IN_HOUR
    IN  sign \o TwoDigits(hours) \o ":" \o TwoDigits(minutes_left)

\* naive_datetime.isoformat(timespec='milliseconds'): the text names the
\* millisecond and nothing below it.
isoformat_milliseconds(naive_datetime) == naive_datetime \div TicksPerMs

\* The timestamp text, as its two parts: the naive part and the offset suffix.
_combine_into_timestamp(naive_datetime, utc_offset_minutes) ==
    <<isoformat_milliseconds(naive_datetime),
      _minutes_to_hours_string(utc_offset_minutes)>>

_arrange_prediction(m) ==
    [raised |-> FALSE,
     key |-> m.stop.JoreStopId,
     value |->
        [joreStopId |-> m.stop.JoreStopId,
         joreLineId |-> m.journey.JoreLineId,
         joreLineDirection |-> m.journey.JoreDirection,
         journeyStartTime |->
            _combine_into_timestamp(m.journey.LocalizedStartTime,
                                    m.utc_offset.UTCOffsetMinutes),
         stopOrderInJourney |-> m.source.JourneyPatternSequenceNumber,
         operatingDay |-> m.journey.OperatingDayDate,
         journeyStartInSecondsIntoOperatingDay |-> m.journey.OffsetSeconds,
         scheduledDepartureTime |->
            _combine_into_timestamp(m.source.TimetabledEarliestDateTime,
                                    m.utc_offset.UTCOffsetMinutes),
         predictedDepartureTime |->
            _combine_into_timestamp(m.source.TargetDateTime,
                                    m.utc_offset.UTCOffsetMinutes)]]

\* DEPARTURE_STATES[source['State']] raises KeyError for a code without a name.
_arrange_event(m) ==
    IF m.source.State \notin DEPARTURE_STATE_CODES
    THEN [raised |-> TRUE, key |-> m.stop.JoreStopId, value |-> None]
    ELSE
    [raised |-> FALSE,
     key |-> m.stop.JoreStopId,
     value |->
        [joreStopId |-> m.stop.JoreStopId,
         joreLineId |-> m.journey.JoreLineId,
         joreLineDirection |-> m.journey.JoreDirection,
         journeyStartTime |->
            _combine_into_timestamp(m.journey.LocalizedStartTime,
                                    m.utc_offset.UTCOffsetMinutes),
         stopOrderInJourney |-> m.source.JourneyPatternSequenceNumber,
         operatingDay |-> m.journey.OperatingDayDate,
         journeyStartInSecondsIntoOperatingDay |-> m.journey.OffsetSeconds,
         scheduledDepartureTime |->
            _combine_into_timestamp(m.source.TimetabledEarliestDateTime,
                                    m.utc_offset.UTCOffsetMinutes),
         event |-> DEPARTURE_STATES(m.source.State)]]

arrange(kind, m) ==
    IF kind = "event" THEN _arrange_event(m) ELSE _arrange_prediction(m)
mqtt_topic_mid(kind) ==
    IF kind = "event" THEN event_mqtt_topic_mid ELSE prediction_mqtt_topic_mid

\* arrange_by_key(matches): the dict as its items in insertion order, each a
\* <<key, values>> pair; a raise of arrange ends the call.
arrange_by_key(kind, ms) ==
    LET run[i \in 0..Len(ms)] ==
            IF i = 0
            THEN [raised |-> FALSE, by_key |-> <<>>]
            ELSE LET before == run[i - 1]
                     a == arrange(kind, ms[i])
                     seen == {before.by_key[j][1] : j \in DOMAIN before.by_key}
                 IN  IF before.raised
                     THEN before
                     ELSE IF a.raised
                     THEN [raised |-> TRUE, by_key |-> before.by_key]
                     ELSE [raised |-> FALSE,
                           by_key |->
                              IF a.key \in seen
                              THEN [j \in DOMAIN before.by_key |->
                                       IF before.by_key[j][1] = a.key
                                       THEN <<a.key,
                                              Append(before.by_key[j][2],
                                                     a.value)>>
                                       ELSE before.by_key[j]]
                              ELSE Append(before.by_key,
                                          <<a.key, <<a.value>>>>)]
    IN  run[Len(ms)]

\* serialize(matches, message_timestamp): the (topic_suffix, message) pairs.
\* The message is the JSON object: its timestamp, and its entries under
\* 'events' or 'predictions'.
serialize(kind, ms, timestamp) ==
    LET arranged == arrange_by_key(kind, ms)
    IN  [raised |-> arranged.raised,
         messages |->
            IF arranged.raised
            THEN <<>>
            ELSE [j \in DOMAIN arranged.by_key |->
                     [topic_suffix |->
                          mqtt_topic_mid(kind) \o arranged.by_key[j][1],
                      messageTimestamp |-> timestamp,
                      entries_key |-> IF kind = "event"
                                      THEN "events" ELSE "predictions",
                      entries |-> arranged.by_key[j][2]]]]

---------------------------------------------------------------------------
(* The collaborators of the Poller: the Departure table of ptROI, the      *)
(* reference data behind the three mappers, the MQTT connection.           *)

MaxDbTime == 2
MaxWrites == 2
QueueMaxSize == 1
MaxElapsed == 2

DepartureIds == {1, 2}
RowStates == {2, 5}
\* Departure 1 is written with either state, departure 2 as EXPECTED only.
RowStatesOf(id) == IF id = 1 THEN RowStates ELSE {2}
InitialWatermarks == {0, 1}

\* The stop point and the journey of each departure; what Jore knows of them.
JourneyPatternPointGidOf(id) == IF id = 2 THEN "p2" ELSE "p1"
StopInfo(jpp) == [JoreStopId |-> IF jpp = "p1" THEN "1130101" ELSE "1040101"]
JourneyInfo(dvj) ==
    [JoreLineId |-> "1001",
     JoreDirection |-> "1",
     LocalizedStartTime |-> timedelta_minutes(120),
     OperatingDayDate |-> "2023-05-01",
     OffsetSeconds |-> 7200]
UtcOffsetInfo(dvj) == [UTCOffsetMinutes |-> 120]
RowTimetabled == timedelta_minutes(125)

\* A row of Departure as POLLING_QUERY selects it.
DepartureRow(id, state, modified) ==
    [DepartureId |-> id,
     DatedVehicleJourneyId |-> "j1",
     JourneyPatternPointGid |-> JourneyPatternPointGidOf(id),
     TimetabledEarliestDateTime |-> RowTimetabled,
     ObservedDateTime |-> None,
     TargetDateTime |-> RowTimetabled,
     JourneyPatternSequenceNumber |-> 2,
     State |-> state,
     LastModifiedUTCDateTime |-> modified]

\* Reference data: the keys each mapper can load.  The stop point "p2" is
\* published late or never.
PublishedAtStart ==
    [stop |-> {"p1"}, journey |-> {"j1"}, utc_offset |-> {"j1"}]

\* _format_datetime_for_sql(dt): the text names the millisecond and nothing
\* below it; the server reads it back as the start of that millisecond.
_format_datetime_for_sql(dt) == dt \div TicksPerMs
sql_datetime(text) == text * TicksPerMs

\* query_from_roi with an exclusive comparison.
query_from_roi_exclusive(table, modified_utc) ==
    LET selected(id) ==
            /\ table[id] # None
            /\ table[id][1].LastModifiedUTCDateTime
                  > sql_datetime(modified_utc)
        ordered[n \in 0..Cardinality(DepartureIds)] ==
            IF n = 0 THEN <<>>
            ELSE IF selected(n) THEN Append(ordered[n - 1], table[n][1])
                 ELSE ordered[n - 1]
    IN  ordered[Cardinality(DepartureIds)]

\* query_from_roi(POLLING_QUERY.format(modified_utc=...)): the rows modified
\* at or after the given time, here in the order of their ids.
query_from_roi(table, modified_utc) ==
    LET selected(id) ==
            /\ table[id] # None
            /\ table[id][1].LastModifiedUTCDateTime
                  >= sql_datetime(modified_utc)
        ordered[n \in 0..Cardinality(DepartureIds)] ==
            IF n = 0 THEN <<>>
            ELSE IF selected(n) THEN Append(ordered[n - 1], table[n][1])
                 ELSE ordered[n - 1]
    IN  ordered[Cardinality(DepartureIds)]

---------------------------------------------------------------------------
(* Matching. *)

\* Poller._get_matches(row) against the snapshots of the three mappers
_get_matches(stops, journeys, offsets, row) ==
    IF \/ row.JourneyPatternPointGid \notin stops
       \/ row.DatedVehicleJourneyId \notin journeys
       \/ row.DatedVehicleJourneyId \notin offsets
    THEN None
    ELSE Some([source |-> row,
               stop |-> StopInfo(row.JourneyPatternPointGid),
               journey |-> JourneyInfo(row.DatedVehicleJourneyId),
               utc_offset |-> UtcOffsetInfo(row.DatedVehicleJourneyId)])

\* matches = [self._get_matches(row) for row in rows]
get_matches_of_rows(stops, journeys, offsets, rs) ==
    [i \in DOMAIN rs |-> _get_matches(stops, journeys, offsets, rs[i])]

\* [x for x in matches if x is not None]
without_none(ms) ==
    LET run[i \in 0..Len(ms)] ==
            IF i = 0 THEN <<>>
            ELSE IF ms[i] = None THEN run[i - 1]
                 ELSE Append(run[i - 1], ms[i][1])
    IN  run[Len(ms)]

\* A mapper's update(): the snapshot is reloaded from the reference data,
\* and the answer tells whether it changed.
mapper_update(snapshot, reference) ==
    [changed |-> snapshot # reference, snapshot |-> reference]

\* _update_mappers: any(future.result() for future in done)
_update_mappers(results) == \E i \in DOMAIN results : results[i].changed

\* The three mappers, and an update() that raises: the snapshot stays.
Mappers == {"stop", "journey", "utc_offset"}
mapper_update_raises(snapshot) == [changed |-> FALSE, snapshot |-> snapshot]
mapper_not_updated(snapshot) == [changed |-> FALSE, snapshot |-> snapshot]

\* _update_mappers when the update of one mapper raised: the ways
\* any(future.result() for future in done) can end, given the results of
\* the other two.
_update_mappers_raises(results) ==
    {"raised"} \cup (IF \E i \in DOMAIN results : results[i].changed
                     THEN {"changed"} ELSE {})

\* Mutant: the mappers are updated only in a round that left a row unmatched.
is_update_awaited_on_miss(ms) == \E i \in DOMAIN ms : ms[i] = None

\* _get_all_matches: every round awaits _update_mappers, whatever the
\* matches of the round are.
is_update_awaited(ms) == TRUE

\* Mutant: the loop of _get_all_matches ends after its first round.
is_every_row_matched_first_round(changed) == TRUE

\* _get_all_matches: the loop ends with the round whose update changed nothing
is_every_row_matched(changed) == ~changed

\* Mutant: the watermark follows the enriched batch only.
new_modified_utc_dt_of_matched(rs, ms, modified) ==
    IF ms # <<>>
    THEN SetMax({ms[i].source.LastModifiedUTCDateTime : i \in DOMAIN ms})
    ELSE modified

\* Mutant: an empty poll falls back to the start of time.
new_modified_utc_dt_reset(rs, ms, modified) ==
    IF rs # <<>>
    THEN SetMax({rs[i].LastModifiedUTCDateTime : i \in DOMAIN rs})
    ELSE 0

\* Poller._poll, what it returns: max(row['LastModifiedUTCDateTime'] for row
\* in rows) of a batch with rows, else the watermark it was given.
new_modified_utc_dt(rs, ms, modified) ==
    IF rs # <<>>
    THEN SetMax({rs[i].LastModifiedUTCDateTime : i \in DOMAIN rs})
    ELSE modified

\* Mutant: asyncio.wait returns with the first task that is done.
tasks_waited_first_completed(pcs) ==
    \E p \in Pipelines : pcs[p] \in {"done", "failed"}

\* await asyncio.wait(tasks) in _poll: every processor task is done, with a
\* result or with an exception (which nothing retrieves).
tasks_waited(pcs) == \A p \in Pipelines : pcs[p] \in {"done", "failed"}

\* Mutant: asyncio.wait returns with the first of the poll and the sleep.
futures_waited_first_completed(pc, seconds) ==
    pc \in {"returned", "raised"} \/ seconds >= poll_interval_in_seconds

\* await asyncio.wait(futures) in _keep_polling: the poll is done and the
\* sleep of the poll interval is over.
futures_waited(pc, seconds) ==
    pc \in {"returned", "raised"} /\ seconds >= poll_interval_in_seconds

---------------------------------------------------------------------------
(* One processor applied to one match at a time: process([m], timestamp)   *)
(* without the queue.  The inputs range over the fields the two checkers   *)
(* and the arrangers read.                                                 *)

MaxFeeds == 3
\* Departure 1 takes every combination of the fields; departure 2 varies in
\* what the debounce compares only, and departure 3 comes with one record:
\* the two serve to fill the caches.
FeedIds == {1, 2, 3}
FeedStates == {2, 5, 6}
FeedLines == {"1300", "3001"}
FeedLocalizedStartTime == timedelta_seconds(20000)
FeedTimetabled == timedelta_seconds(20300)
\* With an offset of 120 minutes the journey starts at 12800 s UTC: a row
\* modified at 12740 s is exactly the threshold ahead, one tick earlier is
\* given early.  With an offset of -150 minutes every row is given early.
FeedLastModified ==
    {timedelta_seconds(12740), timedelta_seconds(12740) - 1}
FeedOffsets == {120, -150}
FeedTargets == {FeedTimetabled, FeedTimetabled + timedelta_seconds(4),
                FeedTimetabled + timedelta_seconds(30),
                FeedTimetabled + timedelta_seconds(40)}
FeedObserved == {None, Some(FeedTimetabled - timedelta_seconds(5))}
FeedTimestamp == _combine_into_timestamp(timedelta_seconds(12800), 0)

FeedMatch(id, state, line, seq, offset, modified, target, observed) ==
    [source |->
        [DepartureId |-> id,
         DatedVehicleJourneyId |-> "j1",
         JourneyPatternPointGid |-> "p1",
         TimetabledEarliestDateTime |-> FeedTimetabled,
         ObservedDateTime |-> observed,
         TargetDateTime |-> target,
         JourneyPatternSequenceNumber |-> seq,
         State |-> state,
         LastModifiedUTCDateTime |-> modified],
     stop |-> [JoreStopId |-> "1130101"],
     journey |->
        [JoreLineId |-> line,
         JoreDirection |-> "1",
         LocalizedStartTime |-> FeedLocalizedStartTime,
         OperatingDayDate |-> "2023-05-01",
         OffsetSeconds |-> 20000],
     utc_offset |-> [UTCOffsetMinutes |-> offset]]

FeedFiller ==
    FeedMatch(3, 2, "1300", 2, 120, timedelta_seconds(12740),
              FeedTimetabled, None)
\* What the event checker reads varies; the prediction fields are fixed.
EventInputs ==
    {FeedMatch(1, state, line, seq, 120, modified, FeedTimetabled, None) :
        state \in FeedStates, line \in FeedLines,
        seq \in {1, 2}, modified \in FeedLastModified}
    \cup {FeedMatch(2, state, "1300", 2, 120, timedelta_seconds(12740),
                    FeedTimetabled, None) : state \in FeedStates}
    \cup {FeedFiller}
\* What the prediction checker reads varies; a record of a train line comes
\* with one offset and two of the targets only.
PredictionInputs ==
    {FeedMatch(1, state, "1300", 2, offset, timedelta_seconds(12740),
               target, observed) :
        state \in {2, 3, 5}, offset \in FeedOffsets,
        target \in FeedTargets, observed \in FeedObserved}
    \cup {FeedMatch(1, state, "3001", 2, 120, timedelta_seconds(12740),
                    target, observed) :
             state \in {2, 3, 5},
             target \in {FeedTimetabled,
                         FeedTimetabled + timedelta_seconds(40)},
             observed \in FeedObserved}
    \cup {FeedMatch(2, 2, "1300", 2, 120, timedelta_seconds(12740),
                    target, observed) :
             target \in FeedTargets, observed \in FeedObserved}
    \cup {FeedFiller}
FeedInputs(kind) == IF kind = "event" THEN EventInputs ELSE PredictionInputs

cache_of(kind) == IF kind = "event" THEN event_cache ELSE prediction_cache

\* The poller at rest, as FilterSpec leaves it.
PollerAtRest ==
    /\ modified_utc_dt = 0
    /\ poll_pc = "loop"
    /\ poll_fut = None
    /\ polls_in_flight = 0
    /\ rows = <<>>
    /\ matches = <<>>
    /\ matched = <<>>
    /\ message_timestamp = FeedTimestamp
    /\ elapsed = 0
    /\ poll_end = None
    /\ run_log = <<>>
    /\ prev_dropped = {}
    /\ proc_pc = [p \in Pipelines |-> "idle"]
    /\ serialized = [p \in Pipelines |-> <<>>]
    /\ filtered = [p \in Pipelines |-> <<>>]
    /\ enqueued = [p \in Pipelines |-> <<>>]
    /\ queue = <<>>
    /\ is_mqtt_connected = TRUE
    /\ departure_table = [id \in DepartureIds |-> None]
    /\ db_now = 0
    /\ stop_mapper = {}
    /\ journey_mapper = {}
    /\ utc_offset_mapper = {}
    /\ published = PublishedAtStart
    /\ writes = 0

FilterInit ==
    /\ PollerAtRest
    /\ event_cache = <<>>
    /\ prediction_cache = <<>>
    /\ fed = None
    /\ fed_to \in Pipelines
    /\ event_cache_size \in IF fed_to = "event" THEN EventCacheSizes ELSE {1}
    /\ outcomes = <<>>
    /\ fed_ids = <<>>
    /\ emitted = <<>>
    /\ last_kept = [id \in FeedIds |-> None]

\* process([m], message_timestamp) up to the queue: filter_, then serialize.
Feed(m) ==
    LET f == filter_(fed_to, cache_of(fed_to), <<m>>)
        s == serialize(fed_to, f.kept, message_timestamp)
        kv == extract_cache_key_value(fed_to, m)
    IN  /\ Len(outcomes) < MaxFeeds
        /\ fed' = Some(m)
        /\ fed_ids' = Append(fed_ids, m.source.DepartureId)
        /\ outcomes' = Append(outcomes,
                              IF f.raised THEN "raised"
                              ELSE IF f.kept # <<>> THEN "kept"
                              ELSE "dropped")
        /\ emitted' = IF f.raised THEN <<>> ELSE s.messages
        /\ last_kept' = IF f.kept # <<>>
                        THEN [last_kept EXCEPT ![kv.key] = Some(kv.value)]
                        ELSE last_kept
        /\ event_cache' = IF fed_to = "event" THEN f.cache ELSE event_cache
        /\ prediction_cache' =
              IF fed_to = "prediction" THEN f.cache ELSE prediction_cache
        /\ UNCHANGED <<pollVars, procVars, envVars, mapperVars, fed_to,
                       historyVars, configVars>>

FilterNext == \E m \in FeedInputs(fed_to) : Feed(m)

FilterSpec == FilterInit /\ [][FilterNext]_vars

---------------------------------------------------------------------------
(* The Poller: Init is _keep_polling at its while loop, the processors     *)
(* built and the first watermark taken from the clock.                     *)

Init ==
    /\ modified_utc_dt \in InitialWatermarks
    /\ poll_pc = "loop"
    /\ poll_fut = None
    /\ polls_in_flight = 0
    /\ rows = <<>>
    /\ matches = <<>>
    /\ matched = <<>>
    /\ message_timestamp = _combine_into_timestamp(0, 0)
    /\ elapsed = 0
    /\ poll_end = None
    /\ run_log = <<>>
    /\ prev_dropped = {}
    /\ event_cache_size = 1
    /\ proc_pc = [p \in Pipelines |-> "idle"]
    /\ serialized = [p \in Pipelines |-> <<>>]
    /\ filtered = [p \in Pipelines |-> <<>>]
    /\ enqueued = [p \in Pipelines |-> <<>>]
    /\ queue = <<>>
    /\ event_cache = <<>>
    /\ prediction_cache = <<>>
    /\ is_mqtt_connected = FALSE
    /\ departure_table = [id \in DepartureIds |-> None]
    /\ db_now = 0
    /\ writes = 0
    /\ stop_mapper = {}
    /\ journey_mapper = {}
    /\ utc_offset_mapper = {}
    /\ published = PublishedAtStart
    /\ fed = None
    /\ fed_to = "none"
    /\ outcomes = <<>>
    /\ fed_ids = <<>>
    /\ emitted = <<>>
    /\ last_kept = [id \in FeedIds |-> None]

\* The rows of a finished cycle that _get_all_matches left without a match
\* (the None entries that without_none then removes).
dropped_rows(rs, ms) ==
    {rs[i] : i \in {k \in DOMAIN rs \cap DOMAIN ms : ms[k] = None}}

\* _keep_polling, top of the loop: a _poll and a sleep are started.
StartCycle ==
    /\ poll_pc = "loop"
    /\ poll_pc' = "query"
    /\ poll_fut' = None
    /\ polls_in_flight' = polls_in_flight + 1
    /\ elapsed' = 0
    /\ poll_end' = None
    /\ proc_pc' = [p \in Pipelines |-> "idle"]
    /\ filtered' = [p \in Pipelines |-> <<>>]
    /\ enqueued' = [p \in Pipelines |-> <<>>]
    /\ prev_dropped' = dropped_rows(rows, matches)
    /\ UNCHANGED <<modified_utc_dt, rows, matches, matched, message_timestamp,
                   run_log, serialized, queue, cacheVars, envVars, mapperVars,
                   feedVars, configVars>>

\* _poll: once the MQTT connection is up, the query; an empty result ends
\* the poll with the watermark it was given.
PollQuery ==
    /\ poll_pc = "query"
    /\ is_mqtt_connected
    /\ LET rs == query_from_roi(departure_table,
                                _format_datetime_for_sql(modified_utc_dt))
       IN  /\ rows' = rs
           /\ IF rs # <<>>
              THEN /\ message_timestamp' = _combine_into_timestamp(db_now, 0)
                   /\ poll_pc' = "match"
                   /\ UNCHANGED <<poll_fut, polls_in_flight, poll_end>>
              ELSE /\ poll_fut' =
                         Some(new_modified_utc_dt(rs, <<>>, modified_utc_dt))
                   /\ poll_pc' = "returned"
                   /\ polls_in_flight' = polls_in_flight - 1
                   /\ poll_end' = Some(elapsed)
                   /\ UNCHANGED message_timestamp
    /\ matches' = <<>>
    /\ matched' = <<>>
    /\ UNCHANGED <<modified_utc_dt, elapsed, run_log, procVars, cacheVars,
                   envVars, mapperVars, feedVars, historyVars, configVars>>

\* The query raises: so does _poll.
PollQueryRaises ==
    /\ poll_pc = "query"
    /\ is_mqtt_connected
    /\ poll_pc' = "raised"
    /\ polls_in_flight' = polls_in_flight - 1
    /\ UNCHANGED <<modified_utc_dt, poll_fut, rows, matches, matched,
                   message_timestamp, elapsed, poll_end, run_log, procVars,
                   cacheVars, envVars, mapperVars, feedVars, historyVars,
                   configVars>>

\* One round of _get_all_matches: the rows are matched against the snapshots,
\* then _update_mappers refreshes the three mappers and tells whether any of
\* them changed.  After the last round the processors are started.
MatchRound ==
    /\ poll_pc = "match"
    /\ LET ms == get_matches_of_rows(stop_mapper, journey_mapper,
                                     utc_offset_mapper, rows)
           stops == IF is_update_awaited(ms)
                    THEN mapper_update(stop_mapper, published.stop)
                    ELSE mapper_not_updated(stop_mapper)
           journeys == IF is_update_awaited(ms)
                       THEN mapper_update(journey_mapper, published.journey)
                       ELSE mapper_not_updated(journey_mapper)
           offsets == IF is_update_awaited(ms)
                      THEN mapper_update(utc_offset_mapper,
                                         published.utc_offset)
                      ELSE mapper_not_updated(utc_offset_mapper)
           changed == _update_mappers(<<stops, journeys, offsets>>)
       IN  /\ matches' = ms
           /\ stop_mapper' = stops.snapshot
           /\ journey_mapper' = journeys.snapshot
           /\ utc_offset_mapper' = offsets.snapshot
           /\ IF is_every_row_matched(changed)
              THEN /\ matched' = without_none(ms)
                   /\ poll_pc' = "process"
                   /\ proc_pc' = [p \in Pipelines |-> "ready"]
              ELSE /\ poll_pc' = "match"
                   /\ UNCHANGED <<matched, proc_pc>>
    /\ UNCHANGED <<modified_utc_dt, poll_fut, polls_in_flight, rows,
                   message_timestamp, elapsed, poll_end, run_log, serialized,
                   filtered, enqueued, queue, cacheVars, envVars, feedVars,
                   historyVars, configVars>>

\* The update of one mapper raises; the other two are done as usual, since
\* asyncio.wait awaits them all.  any(future.result() for future in done)
\* walks the set done in no fixed order: it raises when it reaches the failed
\* future, unless a future reached before it answered True, and then the
\* round counts as changed.  What is raised, _get_all_matches and _poll raise.
MatchRoundRaises ==
    /\ poll_pc = "match"
    /\ \E failing \in Mappers :
          LET ms == get_matches_of_rows(stop_mapper, journey_mapper,
                                        utc_offset_mapper, rows)
              stops == IF failing = "stop"
                       THEN mapper_update_raises(stop_mapper)
                       ELSE mapper_update(stop_mapper, published.stop)
              journeys == IF failing = "journey"
                          THEN mapper_update_raises(journey_mapper)
                          ELSE mapper_update(journey_mapper,
                                             published.journey)
              offsets == IF failing = "utc_offset"
                         THEN mapper_update_raises(utc_offset_mapper)
                         ELSE mapper_update(utc_offset_mapper,
                                            published.utc_offset)
          IN  /\ is_update_awaited(ms)
              /\ matches' = ms
              /\ stop_mapper' = stops.snapshot
              /\ journey_mapper' = journeys.snapshot
              /\ utc_offset_mapper' = offsets.snapshot
              /\ \E outcome \in
                       _update_mappers_raises(<<stops, journeys, offsets>>) :
                    IF outcome = "raised"
                    THEN /\ poll_pc' = "raised"
                         /\ polls_in_flight' = polls_in_flight - 1
                    ELSE /\ poll_pc' = "match"
                         /\ UNCHANGED polls_in_flight
    /\ UNCHANGED <<modified_utc_dt, poll_fut, rows, matched,
                   message_timestamp, elapsed, poll_end, run_log, procVars,
                   cacheVars, envVars, feedVars, historyVars, configVars>>

\* process(matched, message_timestamp) up to its first put: filter_, then
\* serialize.  A KeyError in either ends the task.
ProcessRun(p) ==
    /\ poll_pc = "process"
    /\ proc_pc[p] = "ready"
    /\ LET f == filter_(p, cache_of(p), matched)
           s == serialize(p, f.kept, message_timestamp)
       IN  /\ event_cache' = IF p = "event" THEN f.cache ELSE event_cache
           /\ prediction_cache' =
                 IF p = "prediction" THEN f.cache ELSE prediction_cache
           /\ filtered' = [filtered EXCEPT ![p] = f.kept]
           /\ IF f.raised \/ s.raised
              THEN /\ proc_pc' = [proc_pc EXCEPT ![p] = "failed"]
                   /\ UNCHANGED serialized
              ELSE /\ proc_pc' =
                         [proc_pc EXCEPT
                             ![p] = IF s.messages = <<>>
                                    THEN "done" ELSE "putting"]
                   /\ serialized' = [serialized EXCEPT ![p] = s.messages]
    /\ UNCHANGED <<pollVars, enqueued, queue, envVars, mapperVars, feedVars,
                   historyVars, configVars>>

\* await queue.put((topic_suffix, message)): waits while the queue is full.
ProcessPut(p) ==
    /\ poll_pc = "process"
    /\ proc_pc[p] = "putting"
    /\ Len(queue) < QueueMaxSize
    /\ queue' = Append(queue, Head(serialized[p]))
    /\ enqueued' = [enqueued EXCEPT ![p] = Append(@, Head(serialized[p]))]
    /\ serialized' = [serialized EXCEPT ![p] = Tail(serialized[p])]
    /\ proc_pc' = [proc_pc EXCEPT
                      ![p] = IF Tail(serialized[p]) = <<>>
                             THEN "done" ELSE "putting"]
    /\ UNCHANGED <<pollVars, filtered, cacheVars, envVars, mapperVars,
                   feedVars, historyVars, configVars>>

\* _poll after asyncio.wait(tasks): the watermark it returns.
PollReturn ==
    /\ poll_pc = "process"
    /\ tasks_waited(proc_pc)
    /\ poll_fut' = Some(new_modified_utc_dt(rows, matched, modified_utc_dt))
    /\ poll_pc' = "returned"
    /\ polls_in_flight' = polls_in_flight - 1
    /\ poll_end' = Some(elapsed)
    /\ UNCHANGED <<modified_utc_dt, rows, matches, matched,
                   message_timestamp, elapsed, run_log, procVars, cacheVars,
                   envVars, mapperVars, feedVars, historyVars, configVars>>

\* _keep_polling after asyncio.wait(futures): modified_utc_dt =
\* poll_fut.result(), and the loop goes round.
KeepPolling ==
    /\ futures_waited(poll_pc, elapsed)
    /\ poll_fut # None
    /\ modified_utc_dt' = poll_fut[1]
    /\ poll_pc' = "loop"
    /\ UNCHANGED <<poll_fut, polls_in_flight, rows, matches, matched,
                   message_timestamp, elapsed, poll_end, run_log, procVars,
                   cacheVars, envVars, mapperVars, feedVars, historyVars,
                   configVars>>

\* poll_fut.result() raises what _poll raised (or that no result is set):
\* _keep_polling ends with it, and so does the await in run, before its
\* LOG.error.
KeepPollingRaises ==
    /\ futures_waited(poll_pc, elapsed)
    /\ poll_fut = None
    /\ poll_pc' = "ended"
    /\ UNCHANGED <<modified_utc_dt, poll_fut, polls_in_flight, rows, matches,
                   matched, message_timestamp, elapsed, poll_end, run_log,
                   procVars, cacheVars, envVars, mapperVars, feedVars,
                   historyVars, configVars>>

\* A second passes; none does between the end of asyncio.wait(futures) and
\* the start of the next poll.  The clock stops at MaxElapsed.
Tick ==
    /\ poll_pc \in {"query", "returned", "raised"}
    /\ ~futures_waited(poll_pc, elapsed)
    /\ elapsed < MaxElapsed
    /\ elapsed' = elapsed + 1
    /\ UNCHANGED <<modified_utc_dt, poll_pc, poll_fut, polls_in_flight, rows,
                   matches, matched, message_timestamp, poll_end, run_log,
                   procVars, cacheVars, envVars, mapperVars, feedVars,
                   historyVars, configVars>>

\* The publisher takes a message off the queue.
QueueGet ==
    /\ queue # <<>>
    /\ queue' = Tail(queue)
    /\ UNCHANGED <<pollVars, proc_pc, serialized, filtered, enqueued,
                   cacheVars, envVars, mapperVars, feedVars, historyVars,
                   configVars>>

\* The MQTT connection comes up or goes down; only a poll waiting for it
\* can tell.
MqttConnects ==
    /\ poll_pc = "query"
    /\ ~is_mqtt_connected
    /\ is_mqtt_connected' = TRUE
    /\ UNCHANGED <<pollVars, procVars, cacheVars, departure_table, db_now,
                   published, writes, mapperVars, feedVars, historyVars,
                   configVars>>

MqttDisconnects ==
    /\ poll_pc = "query"
    /\ is_mqtt_connected
    /\ is_mqtt_connected' = FALSE
    /\ UNCHANGED <<pollVars, procVars, cacheVars, departure_table, db_now,
                   published, writes, mapperVars, feedVars, historyVars,
                   configVars>>

\* ptROI writes a departure, stamped with its clock; only the next query
\* can tell.
WriteRow(id, state) ==
    /\ poll_pc = "query"
    /\ writes < MaxWrites
    /\ departure_table[id] # Some(DepartureRow(id, state, db_now))
    /\ writes' = writes + 1
    /\ departure_table' =
          [departure_table EXCEPT
              ![id] = Some(DepartureRow(id, state, db_now))]
    /\ UNCHANGED <<pollVars, procVars, cacheVars, is_mqtt_connected, db_now,
                   published, mapperVars, feedVars, historyVars, configVars>>

DbTick ==
    /\ poll_pc = "query"
    /\ db_now < MaxDbTime
    /\ db_now' = db_now + 1
    /\ UNCHANGED <<pollVars, procVars, cacheVars, is_mqtt_connected,
                   departure_table, published, writes, mapperVars, feedVars,
                   historyVars, configVars>>

\* Jore publishes the stop point "p2"; only the next update of the mappers
\* can tell.
Publish ==
    /\ poll_pc = "match"
    /\ "p2" \notin published.stop
    /\ published' = [published EXCEPT !.stop = @ \cup {"p2"}]
    /\ UNCHANGED <<pollVars, procVars, cacheVars, is_mqtt_connected,
                   departure_table, db_now, writes, mapperVars, feedVars,
                   historyVars, configVars>>

Next ==
    \/ StartCycle
    \/ PollQuery
    \/ PollQueryRaises
    \/ MatchRound
    \/ MatchRoundRaises
    \/ \E p \in Pipelines : ProcessRun(p)
    \/ \E p \in Pipelines : ProcessPut(p)
    \/ PollReturn
    \/ KeepPolling
    \/ KeepPollingRaises
    \/ Tick
    \/ QueueGet
    \/ MqttConnects
    \/ MqttDisconnects
    \/ \E id \in DepartureIds : \E state \in RowStatesOf(id) :
          WriteRow(id, state)
    \/ DbTick
    \/ Publish

Spec == Init /\ [][Next]_vars

\* The event loop resumes _get_all_matches once the updates it awaits are
\* done: a round that can be taken is taken.
FairSpec == Spec /\ WF_vars(MatchRound)

---------------------------------------------------------------------------
(* What the Poller is expected to do. *)

LastModifiedOf(rs) == {rs[i].LastModifiedUTCDateTime : i \in DOMAIN rs}
PollReturned == poll_pc = "returned" /\ poll_fut # None

\* C1 (watermark monotonicity): when the query returned only rows modified
\* at or after the watermark the poll was given, the watermark the poll
\* returns is not below the watermark it was given, whether the batch is
\* empty or not and whether rows were dropped or not.
C1_WatermarkMonotone ==
    (PollReturned /\ \A t \in LastModifiedOf(rows) : t >= modified_utc_dt)
    => poll_fut[1] >= modified_utc_dt

\* A poll whose batch lost a row to the matching returned a later watermark.
C1_Witness ==
    /\ PollReturned
    /\ rows # <<>>
    /\ \A t \in LastModifiedOf(rows) : t >= modified_utc_dt
    /\ Len(matched) < Len(rows)
    /\ poll_fut[1] > modified_utc_dt

\* C2 (drop-on-miss): after a poll with rows, the watermark returned is the
\* greatest last-modified time of the raw batch; a row with a key that did
\* not resolve is not in the enriched batch and still counts.
C2_DropOnMiss ==
    (PollReturned /\ rows # <<>>)
    => /\ poll_fut[1] \in LastModifiedOf(rows)
       /\ \A t \in LastModifiedOf(rows) : t <= poll_fut[1]
       /\ \A i \in DOMAIN rows :
             matches[i] = None
                => \A j \in DOMAIN matched : matched[j].source # rows[i]

\* The dropped row is the one modified last: the watermark is its time.
C2_Witness ==
    /\ PollReturned
    /\ Len(rows) = 2
    /\ Len(matched) = 1
    /\ matches[2] = None
    /\ rows[2].LastModifiedUTCDateTime
          > matched[1].source.LastModifiedUTCDateTime
    /\ poll_fut[1] = rows[2].LastModifiedUTCDateTime

\* C3 (ordering): no pipeline has started while the batch is being queried
\* or matched; and once the poll has returned its watermark, and until the
\* next poll starts, both pipelines are finished and have put every message
\* they serialized on the queue.
C3_Ordering ==
    /\ poll_pc \in {"query", "match"}
          => \A p \in Pipelines : proc_pc[p] = "idle" /\ serialized[p] = <<>>
    /\ (poll_pc \in {"returned", "loop"} /\ rows # <<>>)
          => \A p \in Pipelines :
                proc_pc[p] \in {"done", "failed"} /\ serialized[p] = <<>>
    /\ \A p \in Pipelines : proc_pc[p] = "done" => serialized[p] = <<>>

\* Both pipelines had two messages to put on a queue of one place, and the
\* poll returned with the last of them still on the queue.
C3_Witness ==
    /\ PollReturned
    /\ Len(matched) = 2
    /\ matched[1].stop # matched[2].stop
    /\ \A p \in Pipelines : proc_pc[p] = "done"
    /\ Len(queue) = QueueMaxSize

\* C4 (cadence, no overlap): at most one poll is in flight, and the loop
\* comes round exactly when both the poll has ended and the poll interval
\* has passed since the cycle began.
C4_Cadence ==
    /\ polls_in_flight <= 1
    /\ (poll_pc = "loop" /\ poll_end # None)
          => elapsed = Max(poll_end[1], poll_interval_in_seconds)

\* A poll that took longer than the interval: the loop came round at once.
C4_Witness ==
    /\ poll_pc = "loop"
    /\ poll_end # None
    /\ poll_end[1] > poll_interval_in_seconds
    /\ elapsed = poll_end[1]
    /\ polls_in_flight = 0

Resolves(row) ==
    /\ row.JourneyPatternPointGid \in stop_mapper
    /\ row.DatedVehicleJourneyId \in journey_mapper
    /\ row.DatedVehicleJourneyId \in utc_offset_mapper
SourcesOf(ms) == [i \in DOMAIN ms |-> ms[i].source]

\* C5 (fixed-point termination): the matching of a batch ends, and what it
\* hands on is exactly the rows of the batch, in their order, whose three
\* keys resolve in the snapshots the mappers are left with, each with the
\* stop, journey and offset of its keys.
C5_FixedPoint ==
    /\ [](poll_pc = "process"
            => /\ SourcesOf(matched) = SelectSeq(rows, Resolves)
               /\ \A i \in DOMAIN matched :
                     /\ matched[i].stop
                          = StopInfo(matched[i].source.JourneyPatternPointGid)
                     /\ matched[i].journey
                          = JourneyInfo(
                                matched[i].source.DatedVehicleJourneyId)
                     /\ matched[i].utc_offset
                          = UtcOffsetInfo(
                                matched[i].source.DatedVehicleJourneyId))
    /\ (poll_pc = "match") ~> (poll_pc # "match")

\* The matching ended with one row of two: the stop point of the other is
\* in no snapshot.
C5_Witness ==
    /\ poll_pc = "process"
    /\ Len(rows) = 2
    /\ Len(matched) = 1
    /\ matches[2] = None
    /\ ~Resolves(rows[2])
    /\ Resolves(rows[1])

---------------------------------------------------------------------------
(* What the filters are expected to do, stated on the record given to      *)
(* Feed and on the caches before and after the call.                       *)

FeedStep(kind) == fed_to = kind /\ Len(outcomes') = Len(outcomes) + 1
LastOutcome == IF outcomes = <<>> THEN "none" ELSE outcomes[Len(outcomes)]

LineIsTrain(m) ==
    /\ Len(m.journey.JoreLineId) >= 3
    /\ SubSeq(m.journey.JoreLineId, 1, 3) = "300"
StartUTC(m) ==
    m.journey.LocalizedStartTime
        - m.utc_offset.UTCOffsetMinutes * 60 * TicksPerSecond
GivenEarly(m) ==
    StartUTC(m) - m.source.LastModifiedUTCDateTime
        > pre_journey_prediction_threshold_in_seconds * TicksPerSecond
FirstStopGivenEarly(m) ==
    m.source.JourneyPatternSequenceNumber = 1 /\ GivenEarly(m)
EffectiveTarget(m) ==
    IF m.source.ObservedDateTime = None
    THEN m.source.TargetDateTime
    ELSE m.source.ObservedDateTime[1]
PredictedEarly(m) ==
    EffectiveTarget(m) < m.source.TimetabledEarliestDateTime
StateIsNamed(m) == m.source.State \in DEPARTURE_STATE_CODES
Cancelled(m) == m.source.State = 3
ChangeThreshold == prediction_change_threshold_in_seconds * TicksPerSecond

\* The entries of a cache, whatever their recency.
Entries(cache) == {cache[i] : i \in DOMAIN cache}
EmittedEntries ==
    UNION {{emitted[i].entries[j] : j \in DOMAIN emitted[i].entries} :
              i \in DOMAIN emitted}

\* C6 (event debounce): a record that is neither of a train line nor a first
\* stop given early is kept by the event filter iff its departure has no
\* cache entry or its state differs from the state of the last record the
\* filter kept for that departure.
C6_EventDebounce ==
    [][(FeedStep("event") /\ ~LineIsTrain(fed'[1])
            /\ ~FirstStopGivenEarly(fed'[1]))
       => LET m == fed'[1]
              id == m.source.DepartureId
          IN  (LastOutcome' = "kept")
                <=> \/ id \notin CacheKeys(event_cache)
                    \/ last_kept[id] = None
                    \/ m.source.State # last_kept[id][1].State]_vars

\* EXPECTED, EXPECTED, ATSTOP of departure 1: kept, dropped, kept.
C6_Witness ==
    /\ fed_to = "event"
    /\ outcomes = <<"kept", "dropped", "kept">>
    /\ fed[1].source.DepartureId = 1
    /\ fed[1].source.State = 6
    /\ ~LineIsTrain(fed[1]) /\ ~FirstStopGivenEarly(fed[1])
    /\ Len(event_cache) = 1
    /\ event_cache[1][1] = 1
    /\ event_cache[1][2].State = 6

\* C7 (prediction debounce): a record that passes the other predicates (not
\* a train, not given early and predicted early, a named state other than
\* CANCELLED) is kept by the prediction filter iff its departure has no cache
\* entry or its effective target time is at least the change threshold away
\* from the effective target time of the last record kept for that departure.
C7_PredictionDebounce ==
    [][(FeedStep("prediction") /\ ~LineIsTrain(fed'[1])
            /\ ~(GivenEarly(fed'[1]) /\ PredictedEarly(fed'[1]))
            /\ StateIsNamed(fed'[1]) /\ ~Cancelled(fed'[1]))
       => LET m == fed'[1]
              id == m.source.DepartureId
          IN  (LastOutcome' = "kept")
                <=> \/ id \notin CacheKeys(prediction_cache)
                    \/ last_kept[id] = None
                    \/ Abs(EffectiveTarget(m)
                             - last_kept[id][1].TargetDateTime)
                         >= ChangeThreshold]_vars

\* Targets T, T+4 s, T+40 s of departure 1: kept, dropped, kept.
C7_Witness ==
    /\ fed_to = "prediction"
    /\ outcomes = <<"kept", "dropped", "kept">>
    /\ fed[1].source.DepartureId = 1
    /\ fed[1].source.ObservedDateTime = None
    /\ fed[1].source.TargetDateTime = FeedTimetabled + 40 * TicksPerSecond
    /\ Len(prediction_cache) = 1
    /\ prediction_cache[1][1] = 1
    /\ prediction_cache[1][2].TargetDateTime
          = FeedTimetabled + 40 * TicksPerSecond

\* C8 (train suppression) as stated: a record of a line whose id starts with
\* "300" is not kept by the filter it is given to, and the call leaves both
\* caches as they were.
C8_TrainLeavesCachesUnchanged ==
    [][(Len(outcomes') = Len(outcomes) + 1 /\ LineIsTrain(fed'[1]))
       => /\ LastOutcome' # "kept"
          /\ event_cache' = event_cache
          /\ prediction_cache' = prediction_cache]_vars

\* C8 as amended: a record of a train line is never kept (the filter answers
\* no, or the prediction checker raises on a state without a name), the call
\* serializes nothing, and it leaves the entries of both caches as they were
\* (the keys and the value under each); no entry ever serialized is of a
\* train line.
C8_TrainNeverKept ==
    [][(Len(outcomes') = Len(outcomes) + 1 /\ LineIsTrain(fed'[1]))
       => /\ LastOutcome' \in {"dropped", "raised"}
          /\ LastOutcome' = "raised"
                => fed_to = "prediction" /\ ~StateIsNamed(fed'[1])
          /\ emitted' = <<>>
          /\ Entries(event_cache') = Entries(event_cache)
          /\ Entries(prediction_cache') = Entries(prediction_cache)
          /\ \A e \in EmittedEntries :
                SubSeq(e.joreLineId, 1, 3) # "300"]_vars

\* A train record of a departure that the cache holds was dropped.
C8_Witness ==
    /\ outcomes = <<"kept", "kept", "dropped">>
    /\ LineIsTrain(fed[1])
    /\ fed[1].source.DepartureId \in CacheKeys(cache_of(fed_to))
    /\ Len(cache_of(fed_to)) = 2

\* C9 (observation supersedes prediction in the message): the entry
\* serialized for a kept prediction record with an observed time carries the
\* observed time as predictedDepartureTime.
C9_EmittedPredictionIsObservation ==
    (/\ fed_to = "prediction"
     /\ LastOutcome = "kept"
     /\ fed[1].source.ObservedDateTime # None)
    => /\ Len(emitted) = 1
       /\ \A e \in EmittedEntries :
             e.predictedDepartureTime
               = _combine_into_timestamp(
                     fed[1].source.ObservedDateTime[1],
                     fed[1].utc_offset.UTCOffsetMinutes)

\* C10 (observation supersedes prediction in the filter): for a prediction
\* record of a named state that is neither of a train line nor cancelled,
\* the filter keeps it iff it is not both given early and (by its effective
\* target time: the observed time when there is one, else the target time)
\* predicted early, and its departure has no cache entry or the cached target
\* time is at least the change threshold away from the effective target
\* time; when kept, the effective target time is the target time cached.
C10_FilterUsesObservation ==
    [][(FeedStep("prediction") /\ ~LineIsTrain(fed'[1])
            /\ StateIsNamed(fed'[1]) /\ ~Cancelled(fed'[1]))
       => LET m == fed'[1]
              id == m.source.DepartureId
              cached == CacheLookup(prediction_cache, id)
          IN  /\ (LastOutcome' = "kept")
                   <=> /\ ~(GivenEarly(m) /\ PredictedEarly(m))
                       /\ \/ cached = None
                          \/ Abs(EffectiveTarget(m)
                                   - cached[1].TargetDateTime)
                               >= ChangeThreshold
              /\ (LastOutcome' = "kept")
                   => CacheLookup(prediction_cache', id)[1].TargetDateTime
                        = EffectiveTarget(m)]_vars

\* A record observed at T-5 s with target T+40 s was kept against a cached
\* target of T+40 s, and T-5 s is what the cache now holds.
C10_Witness ==
    /\ fed_to = "prediction"
    /\ outcomes = <<"kept", "kept">>
    /\ fed[1].source.ObservedDateTime
          = Some(FeedTimetabled - 5 * TicksPerSecond)
    /\ fed[1].source.TargetDateTime = FeedTimetabled + 40 * TicksPerSecond
    /\ Len(prediction_cache) = 1
    /\ prediction_cache[1][2].TargetDateTime
          = FeedTimetabled - 5 * TicksPerSecond

---------------------------------------------------------------------------
(* What the caches are expected to hold. *)

\* The dict a filter caches for a match: the fields its extractor copies.
SnapshotOf(kind, m) ==
    IF kind = "event"
    THEN [State |-> m.source.State,
          JoreLineId |-> m.journey.JoreLineId,
          StartUTCDateTime |-> StartUTC(m),
          LastModifiedUTCDateTime |-> m.source.LastModifiedUTCDateTime,
          TimetabledEarliestDateTime |-> m.source.TimetabledEarliestDateTime,
          LocalizedStartTime |-> m.journey.LocalizedStartTime,
          JourneyPatternSequenceNumber |->
              m.source.JourneyPatternSequenceNumber]
    ELSE [TimetabledEarliestDateTime |-> m.source.TimetabledEarliestDateTime,
          TargetDateTime |-> EffectiveTarget(m),
          LastModifiedUTCDateTime |-> m.source.LastModifiedUTCDateTime,
          State |-> m.source.State,
          StartUTCDateTime |-> StartUTC(m),
          JoreLineId |-> m.journey.JoreLineId]

\* C11 (cache reflects last accepted): the value a filter's cache holds under
\* a departure id is the snapshot of the last record of that id the filter
\* kept; a call that does not keep its record leaves the keys of the cache
\* and the value under each as they were, and a call that keeps it leaves
\* the whole snapshot of the record under its id.
C11_CacheReflectsLastAccepted ==
    /\ [](\A e \in Entries(cache_of(fed_to)) : last_kept[e[1]] = Some(e[2]))
    /\ [][(Len(outcomes') = Len(outcomes) + 1)
          => LET m == fed'[1]
                 id == m.source.DepartureId
             IN  /\ LastOutcome' # "kept"
                    => /\ Entries(event_cache') = Entries(event_cache)
                       /\ Entries(prediction_cache')
                             = Entries(prediction_cache)
                 /\ LastOutcome' = "kept"
                    => /\ CacheLookup(cache_of(fed_to)', id)
                             = Some(SnapshotOf(fed_to, m))
                       /\ last_kept'[id] = Some(SnapshotOf(fed_to, m))
                       /\ \A e \in Entries(cache_of(fed_to)') :
                             e[1] # id => e \in Entries(cache_of(fed_to))]_vars

\* A record was dropped whose departure the cache holds with another value,
\* and the cache still holds that value.
C11_Witness ==
    /\ outcomes = <<"kept", "kept", "dropped">>
    /\ Len(cache_of(fed_to)) = 2
    /\ fed[1].source.DepartureId \in CacheKeys(cache_of(fed_to))
    /\ ~LineIsTrain(fed[1])
    /\ CacheLookup(cache_of(fed_to), fed[1].source.DepartureId)
          # Some(SnapshotOf(fed_to, fed[1]))
    /\ CacheLookup(cache_of(fed_to), fed[1].source.DepartureId)
          = last_kept[fed[1].source.DepartureId]

---------------------------------------------------------------------------
(* What a cycle is expected to put on the queue. *)

StopsOf(ms) == {ms[i].stop.JoreStopId : i \in DOMAIN ms}
AtStop(ms, stop) == {i \in DOMAIN ms : ms[i].stop.JoreStopId = stop}
CycleDone == poll_pc = "returned" /\ rows # <<>>
EveryStateIsNamed ==
    \A i \in DOMAIN rows : rows[i].State \in DEPARTURE_STATE_CODES

\* The messages of pipeline p are one per stop of the records it kept, each
\* under the topic of its stop and with the entries of that stop only.
GroupedByStop(p) ==
    /\ Len(enqueued[p]) = Cardinality(StopsOf(filtered[p]))
    /\ \A stop \in StopsOf(filtered[p]) :
          \E i \in DOMAIN enqueued[p] :
             /\ enqueued[p][i].topic_suffix = mqtt_topic_mid(p) \o stop
             /\ Len(enqueued[p][i].entries)
                   = Cardinality(AtStop(filtered[p], stop))
             /\ \A j \in DOMAIN enqueued[p][i].entries :
                   enqueued[p][i].entries[j].joreStopId = stop
    /\ \A i \in DOMAIN enqueued[p] :
          \E stop \in StopsOf(filtered[p]) :
             enqueued[p][i].topic_suffix = mqtt_topic_mid(p) \o stop

\* C12 (per-stop grouping): when a cycle with rows is over, each pipeline has
\* put on the queue exactly one message per stop of the records its filter
\* kept, none for another stop, each with the entries of its stop only and
\* one entry per record kept, under the topic made of the pipeline's prefix
\* and the stop id.
C12_PerStopGrouping ==
    CycleDone => \A p \in Pipelines : GroupedByStop(p)

\* The same for the cycles whose rows all carry a state with a name.
PerStopGroupingOfNamedStates ==
    (CycleDone /\ EveryStateIsNamed) => \A p \in Pipelines : GroupedByStop(p)

\* Two stops, two messages of each pipeline.
PerStopGroupingReached ==
    /\ CycleDone
    /\ EveryStateIsNamed
    /\ \A p \in Pipelines :
          Len(enqueued[p]) = 2 /\ Cardinality(StopsOf(filtered[p])) = 2

---------------------------------------------------------------------------
(* What a failure is expected to do. *)

\* C13 (resolver refresh failure): a round of the matching in which the
\* update of a mapper raises ends the matching as a round without change
\* does: the rows matched on the snapshots are handed to the pipelines, and
\* the poll goes on.
C13_RefreshFailureIsNoChange ==
    [][MatchRoundRaises
          => /\ poll_pc' = "process"
             /\ matched' = without_none(matches')
             /\ \A p \in Pipelines : proc_pc'[p] = "ready"]_vars

\* What such a round does: the poll ends with the exception, unless another
\* mapper answered that it changed first, and then the round is repeated;
\* no pipeline is started, and a poll that raised never returns a watermark.
RefreshFailureRaisesOrRepeats ==
    /\ [][MatchRoundRaises
             => /\ poll_pc' \in {"raised", "match"}
                /\ matched' = matched
                /\ proc_pc' = proc_pc
                /\ poll_fut' = None]_vars
    /\ [](poll_pc \in {"raised", "ended"} => poll_fut = None)
    /\ [][poll_pc = "raised" => poll_pc' \in {"raised", "ended"}]_vars
    /\ [][poll_pc = "ended" => poll_pc' = "ended"]_vars

\* What a call answers, as an outcome.
OutcomeOf(res) ==
    IF res.raised THEN "raised" ELSE IF res.is_kept THEN "kept" ELSE "dropped"

\* C14 (LRU eviction independence): a call of a filter leaves the value
\* cached under every other departure id as it was, or evicts it; the record
\* of a departure the cache holds is decided against the last record kept for
\* that departure, and the record of a departure the cache does not hold,
\* evicted or never seen, is decided as against no entry at all.
C14_EvictionIndependence ==
    [][(Len(outcomes') = Len(outcomes) + 1)
       => LET m == fed'[1]
              id == m.source.DepartureId
              cache == cache_of(fed_to)
              own == IF id \in CacheKeys(cache) THEN last_kept[id] ELSE None
          IN  /\ \A other \in FeedIds \ {id} :
                    CacheLookup(cache_of(fed_to)', other)
                       \in {CacheLookup(cache, other), None}
              /\ id \in CacheKeys(cache) => last_kept[id] # None
              /\ LastOutcome'
                    = OutcomeOf(is_included(fed_to, SnapshotOf(fed_to, m),
                                            own))
              /\ id \notin CacheKeys(cache)
                    => LastOutcome'
                         = OutcomeOf(is_included_and_cached(fed_to, <<>>,
                                                            m))]_vars

\* Departure 3 was kept, evicted by departure 1, and kept again with the
\* very record that was kept first.
C14_Witness ==
    /\ fed_to = "event"
    /\ fed_ids = <<3, 1, 3>>
    /\ outcomes = <<"kept", "kept", "kept">>
    /\ fed = Some(FeedFiller)
    /\ CacheKeys(event_cache) = {3}
    /\ last_kept[1] # None

\* C15 (unexpected loop termination): once the polling loop has stopped,
\* run has logged at error level that the polling ended, and no poll is
\* started again.
C15_TerminationIsLogged ==
    poll_pc = "ended"
       => /\ run_log = <<"Prediction polling ended unexpectedly.">>
          /\ polls_in_flight = 0

\* What the end of the loop does: _keep_polling leaves its loop by an
\* exception only, the await in run raises it, and nothing is logged; no
\* poll is started again and the watermark stays.
LoopEndsUnloggedForGood ==
    /\ [](run_log = <<>>)
    /\ [](poll_pc = "ended" => polls_in_flight = 0 /\ poll_fut = None)
    /\ [][poll_pc = "ended"
             => /\ poll_pc' = "ended"
                /\ rows' = rows
                /\ modified_utc_dt' = modified_utc_dt]_vars

---------------------------------------------------------------------------
(* When the mappers are expected to be updated. *)

IsMatchingRound == MatchRound \/ MatchRoundRaises
SnapshotsAreCurrent ==
    /\ stop_mapper = published.stop
    /\ journey_mapper = published.journey
    /\ utc_offset_mapper = published.utc_offset

\* C16 (refresh only on a miss) as stated: a round of the matching updates
\* the mappers only if it left at least one row of the batch unmatched.
C16_RefreshOnlyOnMiss ==
    [][IsMatchingRound => \E i \in DOMAIN matches' : matches'[i] = None]_vars

\* C16 as amended: every round of the matching updates the three mappers,
\* whether or not it left a row unmatched: a round in which no update raises
\* leaves the snapshots equal to the reference data, so that they are when
\* the pipelines run, and a round in which every row matched is repeated
\* when the update changed a snapshot.
C16_RefreshEveryRound ==
    /\ [][MatchRound => SnapshotsAreCurrent']_vars
    /\ [](poll_pc = "process" => SnapshotsAreCurrent)
    /\ [][(MatchRound /\ stop_mapper' # stop_mapper) => poll_pc' = "match"]_vars

\* In a cycle after the first, with departure 1 only, every row matched in a
\* round that still loaded the stop point "p2", and the round is repeated.
C16_Witness ==
    /\ poll_pc = "match"
    /\ event_cache # <<>>
    /\ departure_table[2] = None
    /\ matches # <<>>
    /\ \A i \in DOMAIN matches : matches[i] # None
    /\ "p2" \in stop_mapper

\* ---------------------------------------------------------------------
\* C17: rows dropped by the matching and the queries of later cycles.
\* ---------------------------------------------------------------------

RowsOf(rs) == {rs[i] : i \in DOMAIN rs}
RowsAreOfThisCycle == poll_pc \in {"match", "process", "returned"}
InTable(row) == departure_table[row.DepartureId] = Some(row)
MillisecondOf(t) == t \div TicksPerMs

\* C17 (dropped rows are not retried) as stated: a row that the matching of
\* a cycle dropped is not among the rows the query of the next cycle
\* returns, and it is not among the records a pipeline of a later cycle
\* keeps and emits.
C17_DroppedRowsNotRetried ==
    /\ RowsAreOfThisCycle => \A row \in prev_dropped : row \notin RowsOf(rows)
    /\ \A p \in Pipelines :
          \A row \in prev_dropped : row \notin RowsOf(SourcesOf(filtered[p]))

\* C17 as amended: the query is inclusive and compares at the millisecond,
\* so a row that the matching of a cycle dropped, and that the database
\* still holds as it was, is returned by the query of the next cycle iff it
\* was modified in the millisecond of the watermark the cycle produced, that
\* is, of the newest row of its batch; a dropped row of an earlier
\* millisecond is not returned again.
C17_DroppedRowRetriedAtWatermark ==
    RowsAreOfThisCycle
    => \A row \in prev_dropped :
          InTable(row)
          => (row \in RowsOf(rows)
              <=> MillisecondOf(row.LastModifiedUTCDateTime)
                     = MillisecondOf(modified_utc_dt))

\* A row dropped in the previous cycle was returned again, matched once its
\* stop point was known, kept by the event filter and put on the queue.
C17_Witness ==
    /\ poll_pc = "returned"
    /\ \E row \in prev_dropped : row \in RowsOf(SourcesOf(filtered["event"]))
    /\ enqueued["event"] # <<>>

\* ---------------------------------------------------------------------
\* C18: the event filter and a first stop given early.
\* ---------------------------------------------------------------------

\* What the event filter answers when neither rule of rejection applies.
EventDebounceKeeps(m) ==
    \/ m.source.DepartureId \notin CacheKeys(event_cache)
    \/ last_kept[m.source.DepartureId] = None
    \/ m.source.State # last_kept[m.source.DepartureId][1].State

\* C18 (early first-stop suppression) as stated: the event filter drops a
\* record of sequence number 1 whose journey starts more than the threshold
\* after its last modification, whatever the cache holds, and the call
\* leaves the cache as it was; any other record that is not of a train line
\* is decided by the debounce alone.
C18_EarlyFirstStopLeavesCacheUnchanged ==
    [][FeedStep("event")
       => LET m == fed'[1]
          IN  /\ FirstStopGivenEarly(m)
                    => LastOutcome' = "dropped" /\ event_cache' = event_cache
              /\ (~FirstStopGivenEarly(m) /\ ~LineIsTrain(m))
                    => (LastOutcome' = "kept" <=> EventDebounceKeeps(m))]_vars

\* C18 as amended: such a record is dropped and nothing is serialized; the
\* call leaves the keys of the cache and the value under each as they were,
\* and the order of the other departures too, but the lookup has made the
\* departure of the record the most recently used of the cache when the
\* cache holds it.  The rule rejects no other record.
C18_EarlyFirstStopRejected ==
    [][FeedStep("event")
       => LET m == fed'[1]
              id == m.source.DepartureId
          IN  /\ FirstStopGivenEarly(m)
                    => /\ LastOutcome' = "dropped"
                       /\ emitted' = <<>>
                       /\ Entries(event_cache') = Entries(event_cache)
                       /\ CacheWithout(event_cache', id)
                             = CacheWithout(event_cache, id)
                       /\ id \in CacheKeys(event_cache)
                             => event_cache'[Len(event_cache')][1] = id
              /\ (~FirstStopGivenEarly(m) /\ ~LineIsTrain(m))
                    => (LastOutcome' = "kept" <=> EventDebounceKeeps(m))]_vars

\* Departures 1 and 3 were kept in a cache of two; then a record of
\* departure 1 at its first stop, given early, was dropped, and departure 1
\* is no longer the one the cache would evict first.
C18_Witness ==
    /\ fed_to = "event"
    /\ event_cache_size = 2
    /\ fed_ids = <<1, 3, 1>>
    /\ outcomes = <<"kept", "kept", "dropped">>
    /\ FirstStopGivenEarly(fed[1]) /\ ~LineIsTrain(fed[1])
    /\ Len(event_cache) = 2
    /\ event_cache[1][1] = 3
    /\ event_cache[2][1] = 1

\* ---------------------------------------------------------------------
\* C19: the rules of rejection of the prediction filter.
\* ---------------------------------------------------------------------

\* What the prediction filter answers when no rule of rejection applies.
PredictionDebounceKeeps(m) ==
    \/ m.source.DepartureId \notin CacheKeys(prediction_cache)
    \/ last_kept[m.source.DepartureId] = None
    \/ Abs(EffectiveTarget(m)
             - last_kept[m.source.DepartureId][1].TargetDateTime)
         >= ChangeThreshold
RejectedByRule(m) == Cancelled(m) \/ (GivenEarly(m) /\ PredictedEarly(m))
OnlyOneIsEarly(m) == GivenEarly(m) # PredictedEarly(m)

\* C19 (prediction rejection rules) as stated: the prediction filter drops a
\* record whose state is CANCELLED and a record that is given early and
\* predicted early, whatever the cache holds, and the call leaves the cache
\* as it was; a record for which only one of the two holds is not dropped by
\* the early rule.
C19_RejectionLeavesCacheUnchanged ==
    [][FeedStep("prediction")
       => LET m == fed'[1]
          IN  /\ RejectedByRule(m)
                    => /\ LastOutcome' = "dropped"
                       /\ prediction_cache' = prediction_cache
              /\ (OnlyOneIsEarly(m) /\ StateIsNamed(m) /\ ~Cancelled(m)
                     /\ ~LineIsTrain(m))
                    => (LastOutcome' = "kept"
                          <=> PredictionDebounceKeeps(m))]_vars

\* C19 as amended: a record whose state has a name and that is CANCELLED, or
\* given early and predicted early, is dropped and nothing is serialized;
\* the call leaves the keys of the cache and the value under each as they
\* were, and the order of the other departures too, but the lookup has made
\* the departure of the record the most recently used when the cache holds
\* it.  A record whose state has no name is not decided at all: the checker
\* raises.  A record for which only one of given early and predicted early
\* holds is decided by the other rules alone.
C19_PredictionRejections ==
    [][FeedStep("prediction")
       => LET m == fed'[1]
              id == m.source.DepartureId
          IN  /\ (RejectedByRule(m) /\ StateIsNamed(m))
                    => /\ LastOutcome' = "dropped"
                       /\ emitted' = <<>>
                       /\ Entries(prediction_cache')
                             = Entries(prediction_cache)
                       /\ CacheWithout(prediction_cache', id)
                             = CacheWithout(prediction_cache, id)
                       /\ id \in CacheKeys(prediction_cache)
                             => prediction_cache'[Len(prediction_cache')][1]
                                   = id
              /\ ~StateIsNamed(m)
                    => /\ LastOutcome' = "raised"
                       /\ Entries(prediction_cache')
                             = Entries(prediction_cache)
              /\ (OnlyOneIsEarly(m) /\ StateIsNamed(m) /\ ~Cancelled(m)
                     /\ ~LineIsTrain(m))
                    => (LastOutcome' = "kept"
                          <=> PredictionDebounceKeeps(m))]_vars

\* Departures 1 and 3 were kept; then a record of departure 1 that is given
\* early and predicted early, and not cancelled, was dropped, and departure
\* 1 is no longer the one the cache would evict first.
C19_Witness ==
    /\ fed_to = "prediction"
    /\ fed_ids = <<1, 3, 1>>
    /\ outcomes = <<"kept", "kept", "dropped">>
    /\ GivenEarly(fed[1]) /\ PredictedEarly(fed[1])
    /\ ~Cancelled(fed[1]) /\ ~LineIsTrain(fed[1])
    /\ Len(prediction_cache) = 2
    /\ prediction_cache[1][1] = 3
    /\ prediction_cache[2][1] = 1

\* ---------------------------------------------------------------------
\* C20: what a filter accepted and what its pipeline put on the queue.
\* ---------------------------------------------------------------------

\* Pipeline p has put on the queue, in this cycle, a message of the stop of
\* match m, and its messages carry one entry per record the filter kept.
EmittedFor(p, m) ==
    \E i \in DOMAIN enqueued[p] :
       /\ enqueued[p][i].topic_suffix
             = mqtt_topic_mid(p) \o m.stop.JoreStopId
       /\ Len(enqueued[p][i].entries)
             = Cardinality(AtStop(filtered[p], m.stop.JoreStopId))
AcceptedIsEmitted(p) ==
    \A i \in DOMAIN filtered[p] : EmittedFor(p, filtered[p][i])

\* C20 (accepted implies emitted): when a cycle with rows is over, every
\* record that the filter of a pipeline kept, and so wrote into its cache,
\* is in a message that the pipeline put on the queue in that cycle,
\* whatever the state codes of the rows.
C20_AcceptedImpliesEmitted ==
    CycleDone => \A p \in Pipelines : AcceptedIsEmitted(p)

\* The same for the cycles whose rows all carry a state with a name.
AcceptedIsEmittedOfNamedStates ==
    (CycleDone /\ EveryStateIsNamed)
    => \A p \in Pipelines : AcceptedIsEmitted(p)

\* A cycle is over in which the event filter kept and cached a record and
\* the event pipeline put nothing on the queue.
AcceptedAndNeverEmitted ==
    /\ CycleDone
    /\ filtered["event"] # <<>>
    /\ \E i \in DOMAIN filtered["event"] :
          filtered["event"][i].source.DepartureId \in CacheKeys(event_cache)
    /\ enqueued["event"] = <<>>

\* ---------------------------------------------------------------------
\* C21: a row polled again at the watermark is not emitted again.
\* ---------------------------------------------------------------------

QueryReturns == poll_pc = "query" /\ poll_pc' \in {"match", "returned"}
FilterRuns(p) == proc_pc[p] = "ready" /\ proc_pc'[p] # "ready"
\* The cache of pipeline p when its filter comes to the i-th match of the
\* batch: what the matches before it have left of the cache.
CacheWhenDeciding(p, i) ==
    filter_(p, cache_of(p), SubSeq(matched, 1, i - 1)).cache
\* The cache holds, under the departure of m, the very record of m: the
\* filter accepted this version of the row in an earlier cycle and has not
\* evicted it.
AcceptedBefore(p, cache, m) ==
    CacheLookup(cache, m.source.DepartureId) = Some(SnapshotOf(p, m))

\* C21 (no duplicate emission of a re-polled row): a row of the last batch
\* that the table still holds as it was, and whose last modification is the
\* watermark, is in the batch of the next query; and a match whose record
\* the filter of a pipeline accepted before and still holds in its cache
\* when it comes to it is not kept again, by the event filter or, the change
\* threshold being above 0, by the prediction filter, so that a batch of
\* such matches puts nothing on the queue.
C21_NoDuplicateOfRepolledRow ==
    /\ [][QueryReturns
          => \A i \in DOMAIN rows :
                (InTable(rows[i])
                   /\ rows[i].LastModifiedUTCDateTime = modified_utc_dt)
                => rows[i] \in RowsOf(rows')]_vars
    /\ [][\A p \in Pipelines :
             (FilterRuns(p) /\ ChangeThreshold > 0)
             => /\ \A i \in DOMAIN matched :
                      AcceptedBefore(p, CacheWhenDeciding(p, i), matched[i])
                      => matched[i] \notin RowsOf(filtered'[p])
                /\ (\A i \in DOMAIN matched :
                       AcceptedBefore(p, CacheWhenDeciding(p, i), matched[i]))
                      => serialized'[p] = <<>> /\ proc_pc'[p] = "done"]_vars

\* A cycle whose only row was modified at the watermark the cycle was given,
\* and whose record both caches held from an earlier cycle: both filters
\* have run, neither kept it, and nothing was put on the queue.
C21_Witness ==
    /\ poll_pc = "process"
    /\ Len(rows) = 1 /\ Len(matched) = 1
    /\ rows[1].LastModifiedUTCDateTime = modified_utc_dt
    /\ \A p \in Pipelines :
          /\ AcceptedBefore(p, cache_of(p), matched[1])
          /\ proc_pc[p] = "done"
          /\ filtered[p] = <<>>
          /\ enqueued[p] = <<>>

===========================================================================
